---- MODULE Spec2Model ----
(***************************************************************************)
(* A state-machine model of ol/webgl/Helper.js (class WebGLHelper): the    *)
(* buffer / shader / program caches, the active program with its location  *)
(* maps, the context lost / restored handlers, custom uniforms and the     *)
(* post-processing pipeline.                                               *)
(*                                                                         *)
(* Every action is one public method (or one event handler) of the helper. *)
(* `calls` is the ordered list of calls the last operation issued to its   *)
(* collaborators (the WebGL context, the passes, the console), and `last`  *)
(* names that operation, its arguments, its result and whether it threw.   *)
(***************************************************************************)
EXTENDS Integers, Sequences, FiniteSets, TLC

(***************************************************************************)
(* Bounds of the model.                                                    *)
(***************************************************************************)
\* GPU handles the context hands out before the model stops creating.
MaxHandles == 6
\* Passes given to the constructor.
MaxPasses == 2

(***************************************************************************)
(* Values.                                                                 *)
(***************************************************************************)
\* JavaScript null, as a GPU handle or a uniform location.
NULL == 0
\* JavaScript undefined, for a property never assigned.
UNDEFINED == -1

ARRAY_BUFFER == 34962
ELEMENT_ARRAY_BUFFER == 34963
Targets == {ARRAY_BUFFER, ELEMENT_ARRAY_BUFFER}

\* The client-owned buffer descriptors: their array and their usage hint.
Buffers == {"bufA", "bufB"}
BufferArray(buf) == IF buf = "bufA" THEN <<0, 1, 70000>> ELSE <<16777217>>
BufferUsage(buf) == IF buf = "bufA" THEN "STATIC_DRAW" ELSE "DYNAMIC_DRAW"

\* The shader descriptors.
Shaders == {"frag", "vert", "badFrag"}
ShaderType(s) == IF s = "vert" THEN "VERTEX_SHADER" ELSE "FRAGMENT_SHADER"
\* Whether the descriptor's source text compiles.
SourceCompiles(s) == s # "badFrag"

\* Names looked up in the active program, and what a linked program answers:
\* the index of an active uniform (0: the program has no such uniform), the
\* location of an attribute (-1: the program has no such attribute).
UniformNames == {"u_opacity", "u_unused"}
\* The names of the custom uniforms, in the key order of options.uniforms.
CustomUniformNames == <<"u_image", "u_blur", "u_mask">>
AttribNames == {"a_position", "a_unused"}
ActiveUniformIndex(name) ==
    IF name = "u_opacity" THEN 1
    ELSE IF name = "u_image" THEN 2
    ELSE IF name = "u_projectionMatrix" THEN 3
    ELSE 0
ActiveAttribIndex(name) == IF name = "a_position" THEN 0 ELSE -1

\* The stable identity of a cacheable object (ol/util.js getUid: a decimal
\* string assigned once per object).
getUid(obj) ==
    CASE obj = "bufA" -> "1"
      [] obj = "bufB" -> "2"
      [] obj = "frag" -> "3"
      [] obj = "vert" -> "4"
      [] obj = "badFrag" -> "5"

(***************************************************************************)
(* JavaScript objects used as maps: a set of [key, val] entries.           *)
(***************************************************************************)
Has(obj, k) == \E e \in obj : e.key = k
Get(obj, k) == (CHOOSE e \in obj : e.key = k).val
Put(obj, k, v) == {e \in obj : e.key # k} \cup {[key |-> k, val |-> v]}
Delete(obj, k) == {e \in obj : e.key # k}

(***************************************************************************)
(* Typed-array conversions of bindBuffer.                                  *)
(***************************************************************************)
RECURSIVE Pow2(_)
Pow2(n) == IF n = 0 THEN 1 ELSE 2 * Pow2(n - 1)

RECURSIVE Log2Floor(_)
Log2Floor(x) == IF x < 2 THEN 0 ELSE 1 + Log2Floor(x \div 2)

\* Float32 of a non-negative integer: 24 bits of significand, ties to even.
ToFloat32(x) ==
    IF x < 16777216 THEN x
    ELSE LET step == Pow2(Log2Floor(x) - 23)
             q    == x \div step
             r    == x % step
         IN  IF 2 * r < step THEN q * step
             ELSE IF 2 * r > step THEN (q + 1) * step
             ELSE IF q % 2 = 0 THEN q * step ELSE (q + 1) * step

ToUint16(x) == x % 65536
\* Modulo 2^32, computed on the two 16-bit halves.
ToUint32(x) == (x % 65536) + 65536 * ((x \div 65536) % 65536)

MapSeq(Op(_), s) == [i \in 1..Len(s) |-> Op(s[i])]

Float32Array(arr) == [type |-> "Float32Array", data |-> MapSeq(ToFloat32, arr)]
Uint32Array(arr) == [type |-> "Uint32Array", data |-> MapSeq(ToUint32, arr)]
Uint16Array(arr) == [type |-> "Uint16Array", data |-> MapSeq(ToUint16, arr)]

VARIABLES
    options,                \* the constructor's opt_options
    hasOESElementIndexUint, \* capability flag, fixed at construction
    postProcessPasses,      \* the passes, fixed at construction
    uniforms_,              \* the custom uniforms, each with its texture
    canvas_,
    textureCreates,         \* history: createTexture calls issued for each
                            \* custom uniform: 0, 1 or 2 for "more than one"
    ctxLost,                \* gl.isContextLost()
    lostPending,            \* a webglcontextlost event is queued
    restoredPending,        \* a webglcontextrestored event is queued
    listening,              \* the two context event listeners are registered
    nextHandle,             \* the next handle the context will hand out
    validFrom,              \* handles below this died with a lost context
    bufferCache_,
    shaderCache_,
    programCache_,
    currentProgram_,
    uniformLocations_,
    attribLocations_,
    programs,               \* program handles the caller has been given
    attached,               \* history: per cached program key, the two shader
                            \* handles attachShader was given, in call order
    lastProgram,            \* history: per program key, the program that
                            \* getProgram last created for it
    lastBound,              \* history: the handle the last bindBuffer of each
                            \* descriptor bound, as a set of at most one
                            \* handle; empty after a loss or a delete
    lookedUpUniforms,       \* history: names the context has answered for
    lookedUpAttribs,        \*   since the active program last changed
    last,
    calls

vars == <<options, hasOESElementIndexUint, postProcessPasses, uniforms_,
          canvas_, textureCreates, ctxLost, lostPending, restoredPending,
          listening, nextHandle, validFrom, bufferCache_, shaderCache_,
          programCache_, currentProgram_, uniformLocations_, attribLocations_,
          programs, attached, lastProgram, lastBound, lookedUpUniforms,
          lookedUpAttribs, last, calls>>

fixedVars == <<options, hasOESElementIndexUint, postProcessPasses>>
frameVars == <<uniforms_, canvas_, textureCreates>>
ctxVars == <<ctxLost, lostPending, restoredPending, listening, validFrom>>
cacheVars == <<bufferCache_, shaderCache_, programCache_>>
bindingVars == <<currentProgram_, uniformLocations_, attribLocations_,
                 lookedUpUniforms, lookedUpAttribs>>

\* A location map that was never assigned is undefined.
UndefinedMap == [defined |-> FALSE, map |-> {}]
EmptyMap == [defined |-> TRUE, map |-> {}]

Call(op, args, ret, err) == [op |-> op, args |-> args, ret |-> ret, err |-> err]

(***************************************************************************)
(* The WebGL context, as far as the helper depends on its answers.         *)
(***************************************************************************)
\* gl.create*(): a fresh handle, or null once the context is lost.
glCreate(n) == IF ctxLost THEN NULL ELSE n
\* How many handles `k` create calls consume.
Consumed(k) == IF ctxLost THEN 0 ELSE k
CanCreate(k) == nextHandle + Consumed(k) - 1 <= MaxHandles
\* A handle of the current, live context.
Live(h) == h # NULL /\ h >= validFrom /\ ~ctxLost

\* gl.getUniformLocation(program, name) for a non-null program: a location
\* object of that program, or null.
glGetUniformLocation(program, name) ==
    IF Live(program) THEN ActiveUniformIndex(name) ELSE NULL
\* gl.getAttribLocation(program, name) for a non-null program.
glGetAttribLocation(program, name) ==
    IF Live(program) THEN ActiveAttribIndex(name) ELSE -1
\* gl.getShaderParameter(shader, COMPILE_STATUS): null on a lost context.
glCompileStatus(s) == ~ctxLost /\ SourceCompiles(s)

(***************************************************************************)
(* constructor                                                             *)
(***************************************************************************)
\* new WebGLPostProcessingPass({...}), named after the options it was
\* made from; the pass made with no options is the default pass.
DefaultPass == "default"
WebGLPostProcessingPass(passOptions) == passOptions

\* options.postProcesses ? options.postProcesses.map(...) : [default pass]
\* (an array, even an empty one, is truthy; undefined is not).
ConstructPasses(postProcesses) ==
    IF postProcesses.given
    THEN [i \in 1..Len(postProcesses.list) |->
            WebGLPostProcessingPass(postProcesses.list[i])]
    ELSE <<DefaultPass>>

\* One entry {name, value} per key of options.uniforms, in key order; the
\* texture property is not set.
ConstructUniforms(uniforms) ==
    [i \in 1..Len(uniforms) |->
        [name |-> uniforms[i].name, value |-> uniforms[i].value,
         texture |-> UNDEFINED]]

constructor(opt_options, oesElementIndexUint) ==
    /\ options = opt_options
    /\ hasOESElementIndexUint = oesElementIndexUint
    /\ postProcessPasses = ConstructPasses(opt_options.postProcesses)
    /\ uniforms_ = ConstructUniforms(opt_options.uniforms)
    /\ canvas_ = [width |-> 300, height |-> 150,
                  styleWidth |-> "", styleHeight |-> ""]
    /\ textureCreates = [i \in 1..Len(opt_options.uniforms) |-> 0]
    /\ ctxLost = FALSE
    /\ lostPending = FALSE
    /\ restoredPending = FALSE
    /\ listening = TRUE
    /\ nextHandle = 1
    /\ validFrom = 1
    /\ bufferCache_ = {}
    /\ shaderCache_ = {}
    /\ programCache_ = {}
    /\ currentProgram_ = NULL
    /\ uniformLocations_ = UndefinedMap
    /\ attribLocations_ = UndefinedMap
    /\ programs = {}
    /\ attached = {}
    /\ lastProgram = {}
    /\ lastBound = [b \in Buffers |-> {}]
    /\ lookedUpUniforms = {}
    /\ lookedUpAttribs = {}
    /\ last = Call("constructor", <<>>, UNDEFINED, FALSE)
    /\ calls = <<>>

\* new WebGLHelper(): no options.
NoOptions == [postProcesses |-> [given |-> FALSE, list |-> <<>>],
              uniforms |-> <<>>]

Init == \E flag \in BOOLEAN : constructor(NoOptions, flag)

\* The sequences of at most n distinct elements of S.
DistinctSeqs(S, n) ==
    UNION {{q \in [1..k -> S] : \A i \in 1..k, j \in 1..k : q[i] = q[j] => i = j}
           : k \in 0..n}

\* options.postProcesses: not given, or a list of pass options, each named.
PassOptionNames == {"passA", "passB", "passC"}
PostProcessesOptions ==
    {[given |-> FALSE, list |-> <<>>]}
    \cup {[given |-> TRUE, list |-> q] : q \in DistinctSeqs(PassOptionNames, MaxPasses)}

\* options.uniforms: no key, one key with an ImageData, and one and two
\* keys with functions (which return what a static value could be).
UniformsOptions ==
    {<<>>,
     <<[name |-> "u_image", value |-> "imageData"]>>,
     <<[name |-> "u_image", value |-> "function"]>>,
     <<[name |-> "u_image", value |-> "function"],
       [name |-> "u_blur", value |-> "function"]>>}

\* A helper with a pipeline of passes and two custom uniforms.
InitPipeline ==
    \E flag \in BOOLEAN, postProcesses \in PostProcessesOptions :
        constructor([postProcesses |-> postProcesses,
                     uniforms |-> <<[name |-> "u_image", value |-> "canvas"],
                                    [name |-> "u_blur", value |-> "number"]>>],
                    flag)

\* A helper with custom uniforms and the default pass.
InitUniforms ==
    \E uniforms \in UniformsOptions :
        constructor([postProcesses |-> [given |-> FALSE, list |-> <<>>],
                     uniforms |-> uniforms], TRUE)

\* options.uniforms with three keys, each value of any of the shapes
\* applyUniforms tells apart, or a function.
DispatchOptions ==
    {[i \in 1..Len(CustomUniformNames) |->
        [name |-> CustomUniformNames[i], value |-> shapes[i]]]
     : shapes \in [1..Len(CustomUniformNames) ->
                     {"canvas", "imageData", "number", "vec2", "vec3",
                      "vec4", "array5", "string", "function"}]}

\* A helper with three custom uniforms and the default pass.
InitDispatch ==
    \E uniforms \in DispatchOptions :
        constructor([postProcesses |-> [given |-> FALSE, list |-> <<>>],
                     uniforms |-> uniforms], TRUE)

(***************************************************************************)
(* bindBuffer(target, buf)                                                 *)
(***************************************************************************)
bindBufferArray(target, arr) ==
    IF target = ARRAY_BUFFER THEN Float32Array(arr)
    ELSE IF hasOESElementIndexUint THEN Uint32Array(arr) ELSE Uint16Array(arr)

\* bindBuffer, given whether the cache lookup missed.
bindBufferWhen(miss, target, buf) ==
    LET arr == BufferArray(buf)
        bufferKey == getUid(buf)
        buffer == IF miss THEN glCreate(nextHandle)
                  ELSE Get(bufferCache_, bufferKey).buffer
    IN  /\ miss => CanCreate(1)
        /\ bufferCache_' =
             IF miss
             THEN Put(bufferCache_, bufferKey, [buf |-> buf, buffer |-> buffer])
             ELSE bufferCache_
        /\ nextHandle' = IF miss THEN nextHandle + Consumed(1) ELSE nextHandle
        /\ calls' = (IF miss THEN <<<<"createBuffer">>>> ELSE <<>>)
                    \o <<<<"bindBuffer", target, buffer>>,
                         <<"bufferData", target, bindBufferArray(target, arr),
                           BufferUsage(buf)>>>>
        /\ lastBound' = [lastBound EXCEPT ![buf] = {buffer}]
        /\ last' = Call("bindBuffer", <<target, buf>>, UNDEFINED, FALSE)
        /\ UNCHANGED <<fixedVars, frameVars, ctxVars, shaderCache_,
                       programCache_, bindingVars, programs, attached, lastProgram>>

\* Faulty variant: the cache is not consulted, every call creates a buffer.
bindBuffer_AlwaysCreates(target, buf) == bindBufferWhen(TRUE, target, buf)

bindBuffer(target, buf) ==
    bindBufferWhen(~Has(bufferCache_, getUid(buf)), target, buf)

(***************************************************************************)
(* deleteBuffer(buf)                                                       *)
(***************************************************************************)
\* Faulty variant: the GPU buffer is deleted but the cache entry is kept.
deleteBuffer_KeepsEntry(buf) ==
    LET bufferKey == getUid(buf)
        present == Has(bufferCache_, bufferKey)
        throws == ~ctxLost /\ ~present
    IN  /\ calls' = IF ~ctxLost /\ present
                    THEN <<<<"deleteBuffer", Get(bufferCache_, bufferKey).buffer>>>>
                    ELSE <<>>
        /\ lastBound' = [lastBound EXCEPT ![buf] = {}]
        /\ last' = Call("deleteBuffer", <<buf>>, UNDEFINED, throws)
        /\ UNCHANGED <<fixedVars, frameVars, ctxVars, nextHandle, cacheVars,
                       bindingVars, programs, attached, lastProgram>>

deleteBuffer(buf) ==
    LET bufferKey == getUid(buf)
        present == Has(bufferCache_, bufferKey)
        \* bufferCacheEntry.buffer of an undefined entry throws a TypeError
        throws == ~ctxLost /\ ~present
    IN  /\ calls' = IF ~ctxLost /\ present
                    THEN <<<<"deleteBuffer", Get(bufferCache_, bufferKey).buffer>>>>
                    ELSE <<>>
        /\ bufferCache_' = IF throws THEN bufferCache_
                           ELSE Delete(bufferCache_, bufferKey)
        /\ lastBound' = [lastBound EXCEPT ![buf] = {}]
        /\ last' = Call("deleteBuffer", <<buf>>, UNDEFINED, throws)
        /\ UNCHANGED <<fixedVars, frameVars, ctxVars, nextHandle,
                       shaderCache_, programCache_, bindingVars, programs, attached, lastProgram>>

(***************************************************************************)
(* getShader(shaderObject)                                                 *)
(***************************************************************************)
\* The shader returned, the cache after the call, the calls issued and the
\* number of handles consumed, starting from cache `cache` and handle `n`.
getShaderFrom(cache, n, shaderObject) ==
    LET shaderKey == getUid(shaderObject)
        shader == glCreate(n)
    IN  IF Has(cache, shaderKey)
        THEN [shader |-> Get(cache, shaderKey), cache |-> cache,
              calls |-> <<>>, used |-> 0]
        ELSE [shader |-> shader,
              cache |-> Put(cache, shaderKey, shader),
              calls |-> <<<<"createShader", ShaderType(shaderObject)>>,
                          <<"shaderSource", shader, shaderObject>>,
                          <<"compileShader", shader>>,
                          <<"getShaderParameter", shader>>>>
                        \o (IF glCompileStatus(shaderObject) THEN <<>>
                            ELSE <<<<"getShaderInfoLog", shader>>,
                                   <<"console.error", shader>>>>),
              used |-> Consumed(1)]

\* Faulty variant: a shader that failed to compile is not cached.
getShader_DropsFailed(shaderObject) ==
    LET r == getShaderFrom(shaderCache_, nextHandle, shaderObject)
    IN  /\ nextHandle + r.used - 1 <= MaxHandles
        /\ shaderCache_' = IF glCompileStatus(shaderObject) THEN r.cache
                           ELSE shaderCache_
        /\ nextHandle' = nextHandle + r.used
        /\ calls' = r.calls
        /\ last' = Call("getShader", <<shaderObject>>, r.shader, FALSE)
        /\ UNCHANGED <<fixedVars, frameVars, ctxVars, bufferCache_,
                       programCache_, bindingVars, programs, attached, lastProgram,
                       lastBound>>

getShader(shaderObject) ==
    LET r == getShaderFrom(shaderCache_, nextHandle, shaderObject)
    IN  /\ nextHandle + r.used - 1 <= MaxHandles
        /\ shaderCache_' = r.cache
        /\ nextHandle' = nextHandle + r.used
        /\ calls' = r.calls
        /\ last' = Call("getShader", <<shaderObject>>, r.shader, FALSE)
        /\ UNCHANGED <<fixedVars, frameVars, ctxVars, bufferCache_,
                       programCache_, bindingVars, programs, attached, lastProgram, lastBound>>

(***************************************************************************)
(* getProgram(fragmentShaderObject, vertexShaderObject)                    *)
(***************************************************************************)
\* Faulty variant: the key does not tell the two positions apart.
ProgramKey_Unordered(fragmentShaderObject, vertexShaderObject) ==
    IF fragmentShaderObject = "vert"
    THEN getUid(vertexShaderObject) \o "/" \o getUid(fragmentShaderObject)
    ELSE getUid(fragmentShaderObject) \o "/" \o getUid(vertexShaderObject)

ProgramKey(fragmentShaderObject, vertexShaderObject) ==
    getUid(fragmentShaderObject) \o "/" \o getUid(vertexShaderObject)

getProgram(fragmentShaderObject, vertexShaderObject) ==
    LET programKey == ProgramKey(fragmentShaderObject, vertexShaderObject)
        program == glCreate(nextHandle)
        n1 == nextHandle + Consumed(1)
        f == getShaderFrom(shaderCache_, n1, fragmentShaderObject)
        v == getShaderFrom(f.cache, n1 + f.used, vertexShaderObject)
        n3 == n1 + f.used + v.used
    IN  IF Has(programCache_, programKey)
        THEN /\ calls' = <<>>
             /\ last' = Call("getProgram",
                             <<fragmentShaderObject, vertexShaderObject>>,
                             Get(programCache_, programKey), FALSE)
             /\ UNCHANGED <<fixedVars, frameVars, ctxVars, nextHandle,
                            cacheVars, bindingVars, programs, attached, lastProgram, lastBound>>
        ELSE /\ n3 - 1 <= MaxHandles
             /\ calls' = <<<<"createProgram">>>>
                         \o f.calls \o <<<<"attachShader", program, f.shader>>>>
                         \o v.calls \o <<<<"attachShader", program, v.shader>>>>
                         \o <<<<"linkProgram", program>>>>
             /\ shaderCache_' = v.cache
             /\ programCache_' = Put(programCache_, programKey, program)
             /\ nextHandle' = n3
             /\ programs' = programs \cup {program}
             /\ attached' = Put(attached, programKey, <<f.shader, v.shader>>)
             /\ lastProgram' = Put(lastProgram, programKey, program)
             /\ last' = Call("getProgram",
                             <<fragmentShaderObject, vertexShaderObject>>,
                             program, FALSE)
             /\ UNCHANGED <<fixedVars, frameVars, ctxVars, bufferCache_,
                            bindingVars, lastBound>>

(***************************************************************************)
(* useProgram(program)                                                     *)
(***************************************************************************)
\* Faulty variant: a program change clears the uniform locations only.
useProgram_KeepsAttribs(program) ==
    IF program = currentProgram_
    THEN /\ calls' = <<>>
         /\ last' = Call("useProgram", <<program>>, FALSE, FALSE)
         /\ UNCHANGED <<fixedVars, frameVars, ctxVars, nextHandle, cacheVars,
                        bindingVars, programs, attached, lastProgram, lastBound>>
    ELSE /\ calls' = <<<<"useProgram", program>>>>
         /\ currentProgram_' = program
         /\ uniformLocations_' = EmptyMap
         /\ attribLocations_' = [attribLocations_ EXCEPT !.defined = TRUE]
         /\ lookedUpUniforms' = {}
         /\ lookedUpAttribs' = {}
         /\ last' = Call("useProgram", <<program>>, TRUE, FALSE)
         /\ UNCHANGED <<fixedVars, frameVars, ctxVars, nextHandle, cacheVars,
                        programs, attached, lastProgram, lastBound>>

useProgram(program) ==
    IF program = currentProgram_
    THEN /\ calls' = <<>>
         /\ last' = Call("useProgram", <<program>>, FALSE, FALSE)
         /\ UNCHANGED <<fixedVars, frameVars, ctxVars, nextHandle, cacheVars,
                        bindingVars, programs, attached, lastProgram, lastBound>>
    ELSE /\ calls' = <<<<"useProgram", program>>>>
         /\ currentProgram_' = program
         /\ uniformLocations_' = EmptyMap
         /\ attribLocations_' = EmptyMap
         /\ lookedUpUniforms' = {}
         /\ lookedUpAttribs' = {}
         /\ last' = Call("useProgram", <<program>>, TRUE, FALSE)
         /\ UNCHANGED <<fixedVars, frameVars, ctxVars, nextHandle, cacheVars,
                        programs, attached, lastProgram, lastBound>>

(***************************************************************************)
(* getUniformLocation(name), getAttributeLocation(name)                    *)
(***************************************************************************)
\* locations[name], undefined when the map has no such property.
LocationOf(locations, name) ==
    IF Has(locations.map, name) THEN Get(locations.map, name) ELSE UNDEFINED

\* !locations[name] for a uniform: undefined and null are falsy.
UniformFalsy(locations, name) == LocationOf(locations, name) \in {UNDEFINED, NULL}

\* !this.attribLocations_[name]: undefined and 0 are falsy.  An attribute
\* location is a number, so UNDEFINED is told apart by the property's absence.
AttribFalsy(name) ==
    \/ ~Has(attribLocations_.map, name)
    \/ Get(attribLocations_.map, name) = 0

\* getUniformLocation(name) on the location map `locations`: the location
\* returned, the map after the call, the calls issued, whether the context
\* answered and whether the call threw.  A property read on an undefined map
\* throws; so does a lookup with a null program (null is no WebGLProgram,
\* the call is rejected with a TypeError).
UniformLookup(locations, name) ==
    IF ~locations.defined
    THEN [ret |-> UNDEFINED, locations |-> locations, calls |-> <<>>,
          answered |-> FALSE, throws |-> TRUE]
    ELSE IF ~UniformFalsy(locations, name)
    THEN [ret |-> LocationOf(locations, name), locations |-> locations,
          calls |-> <<>>, answered |-> FALSE, throws |-> FALSE]
    ELSE IF currentProgram_ = NULL
    THEN [ret |-> UNDEFINED, locations |-> locations,
          calls |-> <<<<"getUniformLocation", currentProgram_, name>>>>,
          answered |-> FALSE, throws |-> TRUE]
    ELSE LET loc == glGetUniformLocation(currentProgram_, name)
         IN  [ret |-> loc,
              locations |-> [locations EXCEPT !.map = Put(@, name, loc)],
              calls |-> <<<<"getUniformLocation", currentProgram_, name>>>>,
              answered |-> TRUE, throws |-> FALSE]

getUniformLocation(name) ==
    LET r == UniformLookup(uniformLocations_, name)
    IN  /\ calls' = r.calls
        /\ uniformLocations_' = r.locations
        /\ lookedUpUniforms' = IF r.answered THEN lookedUpUniforms \cup {name}
                               ELSE lookedUpUniforms
        /\ last' = Call("getUniformLocation", <<name>>, r.ret, r.throws)
        /\ UNCHANGED <<fixedVars, frameVars, ctxVars, nextHandle, cacheVars,
                       currentProgram_, attribLocations_, lookedUpAttribs,
                       programs, attached, lastProgram, lastBound>>

getAttributeLocation(name) ==
    IF ~attribLocations_.defined
    THEN /\ calls' = <<>>
         /\ last' = Call("getAttributeLocation", <<name>>, UNDEFINED, TRUE)
         /\ UNCHANGED <<fixedVars, frameVars, ctxVars, nextHandle, cacheVars,
                        bindingVars, programs, attached, lastProgram, lastBound>>
    ELSE IF ~AttribFalsy(name)
    THEN /\ calls' = <<>>
         /\ last' = Call("getAttributeLocation", <<name>>,
                         Get(attribLocations_.map, name), FALSE)
         /\ UNCHANGED <<fixedVars, frameVars, ctxVars, nextHandle, cacheVars,
                        bindingVars, programs, attached, lastProgram, lastBound>>
    ELSE LET throws == currentProgram_ = NULL
             loc == glGetAttribLocation(currentProgram_, name)
         IN  /\ calls' = <<<<"getAttribLocation", currentProgram_, name>>>>
             /\ attribLocations_' =
                  IF throws THEN attribLocations_
                  ELSE [attribLocations_ EXCEPT !.map = Put(@, name, loc)]
             /\ lookedUpAttribs' = IF throws THEN lookedUpAttribs
                                   ELSE lookedUpAttribs \cup {name}
             /\ last' = Call("getAttributeLocation", <<name>>,
                             IF throws THEN UNDEFINED ELSE loc, throws)
             /\ UNCHANGED <<fixedVars, frameVars, ctxVars, nextHandle,
                            cacheVars, currentProgram_, uniformLocations_,
                            lookedUpUniforms, programs, attached, lastProgram, lastBound>>

(***************************************************************************)
(* applyFrameState(frameState)                                             *)
(***************************************************************************)
\* The frame states given, and the three matrices made from one.
FrameStates == {"frameA", "frameB"}
FrameStateUniforms ==
    <<"u_projectionMatrix", "u_offsetScaleMatrix", "u_offsetRotateMatrix">>
FrameStateMatrix(uniform, frameState) == <<uniform, frameState>>

\* this.getGL().uniformMatrix4fv(this.getUniformLocation(uniform), false,
\* value): the lookup is evaluated first, and its exception leaves the call
\* unissued.
setUniformMatrixValue(st, uniform, value) ==
    LET lk == UniformLookup(st.locations, uniform)
    IN  [locations |-> lk.locations,
         answered |-> IF lk.answered THEN st.answered \cup {uniform}
                      ELSE st.answered,
         calls |-> st.calls \o lk.calls
                   \o (IF lk.throws THEN <<>>
                       ELSE <<<<"uniformMatrix4fv", lk.ret, FALSE, value>>>>),
         threw |-> lk.throws]

\* The three setUniformMatrixValue statements from the i-th on; an
\* exception ends the method.
RECURSIVE SetMatricesFrom(_, _, _)
SetMatricesFrom(st, i, frameState) ==
    IF i > Len(FrameStateUniforms) \/ st.threw THEN st
    ELSE SetMatricesFrom(
             setUniformMatrixValue(st, FrameStateUniforms[i],
                 FrameStateMatrix(FrameStateUniforms[i], frameState)),
             i + 1, frameState)

applyFrameState(frameState) ==
    LET r == SetMatricesFrom([locations |-> uniformLocations_, answered |-> {},
                              calls |-> <<>>, threw |-> FALSE], 1, frameState)
    IN  /\ calls' = r.calls
        /\ uniformLocations_' = r.locations
        /\ lookedUpUniforms' = lookedUpUniforms \cup r.answered
        /\ last' = Call("applyFrameState", <<frameState>>, UNDEFINED, r.threw)
        /\ UNCHANGED <<fixedVars, frameVars, ctxVars, nextHandle, cacheVars,
                       currentProgram_, attribLocations_, lookedUpAttribs,
                       programs, attached, lastProgram, lastBound>>

(***************************************************************************)
(* drawElements(start, end)                                                *)
(***************************************************************************)
\* drawElements, given the byte size of one index.
drawElementsSized(elementSize, start, end) ==
    LET elementType == IF hasOESElementIndexUint THEN "UNSIGNED_INT"
                       ELSE "UNSIGNED_SHORT"
        numItems == end - start
        offsetInBytes == start * elementSize
    IN  /\ calls' = <<<<"drawElements", "TRIANGLES", numItems, elementType,
                        offsetInBytes>>>>
        /\ last' = Call("drawElements", <<start, end>>, UNDEFINED, FALSE)
        /\ UNCHANGED <<fixedVars, frameVars, ctxVars, nextHandle, cacheVars,
                       bindingVars, programs, attached, lastProgram, lastBound>>

\* Faulty variant: the byte offset always assumes 32-bit indices.
drawElements_WideStride(start, end) == drawElementsSized(4, start, end)

drawElements(start, end) ==
    drawElementsSized(IF hasOESElementIndexUint THEN 4 ELSE 2, start, end)

(***************************************************************************)
(* finalizeDraw()                                                          *)
(***************************************************************************)
\* postProcessPasses[i + 1] || null
NoTarget == "null"
NextPass(passes, i) == IF i + 1 <= Len(passes) THEN passes[i + 1] ELSE NoTarget

\* Faulty variant: every pass is applied onto itself.
finalizeDraw_OntoItself ==
    /\ calls' = [i \in 1..Len(postProcessPasses) |->
                   <<"apply", postProcessPasses[i], postProcessPasses[i]>>]
    /\ last' = Call("finalizeDraw", <<>>, UNDEFINED, FALSE)
    /\ UNCHANGED <<fixedVars, frameVars, ctxVars, nextHandle, cacheVars,
                   bindingVars, programs, attached, lastProgram, lastBound>>

finalizeDraw ==
    /\ calls' = [i \in 1..Len(postProcessPasses) |->
                   <<"apply", postProcessPasses[i],
                     NextPass(postProcessPasses, i)>>]
    /\ last' = Call("finalizeDraw", <<>>, UNDEFINED, FALSE)
    /\ UNCHANGED <<fixedVars, frameVars, ctxVars, nextHandle, cacheVars,
                   bindingVars, programs, attached, lastProgram, lastBound>>

(***************************************************************************)
(* applyUniforms()                                                         *)
(***************************************************************************)
\* The shapes a custom uniform's value takes: a canvas, an ImageData, a
\* number, arrays of 2 to 5 numbers, a string.
ImageShapes == {"canvas", "imageData"}
VectorShapes == {"vec2", "vec3", "vec4"}
Shapes == ImageShapes \cup VectorShapes \cup {"number", "array5", "string"}
\* uniform.value is one of the shapes, or a function producing one.
Producer == "function"
\* What the functions given as values return, frame by frame.
ProducedShapes == {"canvas", "number"}

\* The values of one frame: uniform.value, or what uniform.value() returns.
FrameValues(uniforms) ==
    {vals \in [1..Len(uniforms) -> Shapes] :
        \A i \in 1..Len(uniforms) :
            IF uniforms[i].value = Producer THEN vals[i] \in ProducedShapes
            ELSE vals[i] = uniforms[i].value}

VectorSetter(shape) ==
    CASE shape = "vec2" -> "uniform2f"
      [] shape = "vec3" -> "uniform3f"
      [] shape = "vec4" -> "uniform4f"

\* The state threaded through the forEach of applyUniforms.
ApplyStart ==
    [uniforms |-> uniforms_, locations |-> uniformLocations_,
     answered |-> {}, next |-> nextHandle, textureSlot |-> 0,
     creates |-> textureCreates, calls |-> <<>>, threw |-> FALSE]

\* if (!uniform.texture): undefined and null are falsy.
TextureFalsy(texture) == texture \in {UNDEFINED, NULL}

\* One iteration of the forEach, given whether a texture must be created.
ApplyImageWhen(create, st, i, value) ==
    LET uniform == st.uniforms[i]
        texture == IF create THEN glCreate(st.next) ELSE uniform.texture
        upload == (IF create THEN <<<<"createTexture">>>> ELSE <<>>)
                  \o <<<<"activeTexture", st.textureSlot>>,
                       <<"bindTexture", "TEXTURE_2D", texture>>,
                       <<"texParameteri", "TEXTURE_MIN_FILTER", "LINEAR">>,
                       <<"texParameteri", "TEXTURE_WRAP_S", "CLAMP_TO_EDGE">>,
                       <<"texParameteri", "TEXTURE_WRAP_T", "CLAMP_TO_EDGE">>,
                       <<"texImage2D", value>>>>
        lk == UniformLookup(st.locations, uniform.name)
    IN  [uniforms |-> [st.uniforms EXCEPT ![i].texture = texture],
         locations |-> lk.locations,
         answered |-> IF lk.answered THEN st.answered \cup {uniform.name}
                      ELSE st.answered,
         next |-> IF create THEN st.next + Consumed(1) ELSE st.next,
         textureSlot |-> IF lk.throws THEN st.textureSlot
                         ELSE st.textureSlot + 1,
         creates |-> IF create
                     THEN [st.creates EXCEPT ![i] = IF @ = 0 THEN 1 ELSE 2]
                     ELSE st.creates,
         calls |-> st.calls \o upload \o lk.calls
                   \o (IF lk.throws THEN <<>>
                       ELSE <<<<"uniform1i", lk.ret, st.textureSlot>>>>),
         threw |-> lk.throws]

\* Faulty variant: a texture is created in every frame.
ApplyImage_AlwaysCreates(st, i, value) == ApplyImageWhen(TRUE, st, i, value)

ApplyImage(st, i, value) ==
    ApplyImageWhen(TextureFalsy(st.uniforms[i].texture), st, i, value)

\* A number or an array of 2, 3 or 4 numbers: one set call of that arity.
ApplyValue(st, i, value) ==
    LET lk == UniformLookup(st.locations, st.uniforms[i].name)
        setter == IF value = "number" THEN "uniform1f" ELSE VectorSetter(value)
    IN  [st EXCEPT
           !.locations = lk.locations,
           !.answered = IF lk.answered THEN @ \cup {st.uniforms[i].name} ELSE @,
           !.calls = @ \o lk.calls
                     \o (IF lk.throws THEN <<>>
                         ELSE <<<<setter, lk.ret, value>>>>),
           !.threw = lk.throws]

ApplyOne(st, i, value) ==
    IF value \in ImageShapes THEN ApplyImage(st, i, value)
    ELSE IF value \in VectorShapes \cup {"number"} THEN ApplyValue(st, i, value)
    ELSE st

\* typeof uniform.value === 'function' ? uniform.value() : uniform.value
ReadValue(st, i) ==
    IF st.uniforms[i].value = Producer
    THEN [st EXCEPT !.calls = @ \o <<<<"value", st.uniforms[i].name>>>>]
    ELSE st

\* The forEach from uniform i on; an exception ends it.
RECURSIVE ApplyFrom(_, _, _)
ApplyFrom(st, i, vals) ==
    IF i > Len(st.uniforms) \/ st.threw THEN st
    ELSE ApplyFrom(ApplyOne(ReadValue(st, i), i, vals[i]), i + 1, vals)

\* The state after an operation that ends with applyUniforms' loop.
Applied(r, prefix) ==
    /\ r.next - 1 <= MaxHandles
    /\ uniforms_' = r.uniforms
    /\ uniformLocations_' = r.locations
    /\ lookedUpUniforms' = lookedUpUniforms \cup r.answered
    /\ nextHandle' = r.next
    /\ textureCreates' = r.creates
    /\ calls' = prefix \o r.calls

applyUniforms ==
    \E vals \in FrameValues(uniforms_) :
        LET r == ApplyFrom(ApplyStart, 1, vals)
        IN  /\ Applied(r, <<>>)
            /\ last' = Call("applyUniforms", <<vals>>, UNDEFINED, r.threw)
            /\ UNCHANGED <<fixedVars, canvas_, ctxVars, cacheVars,
                           currentProgram_, attribLocations_, lookedUpAttribs,
                           programs, attached, lastProgram, lastBound>>

(***************************************************************************)
(* disposeInternal()                                                       *)
(***************************************************************************)
\* The keys getUid hands out, in ascending numeric order: for-in visits
\* integer-like keys in that order.
IntegerKeys == <<"1", "2", "3", "4", "5">>
ForIn(obj) == SelectSeq(IntegerKeys, LAMBDA k : Has(obj, k))
\* The orders in which a set of keys can be visited.
Orders(keys) ==
    {q \in [1..Cardinality(keys) -> keys] :
        \A i \in DOMAIN q, j \in DOMAIN q : q[i] = q[j] => i = j}

\* The delete calls of disposeInternal on a context that is not lost, the
\* program keys visited in the order programKeys.
DeleteCalls(programKeys) ==
    LET bufferKeys == ForIn(bufferCache_)
        shaderKeys == ForIn(shaderCache_)
    IN  [i \in 1..Len(bufferKeys) |->
            <<"deleteBuffer", Get(bufferCache_, bufferKeys[i]).buffer>>]
        \o [i \in 1..Len(programKeys) |->
            <<"deleteProgram", Get(programCache_, programKeys[i])>>]
        \o [i \in 1..Len(shaderKeys) |->
            <<"deleteShader", Get(shaderCache_, shaderKeys[i])>>]

\* unlistenAll(canvas_), then the deletes; given whether the guard on the
\* lost context is in place.  The program keys are no integers: for-in
\* visits them in insertion order, which the caches here do not record.
disposeInternalWhen(guarded) ==
    \E programKeys \in Orders({e.key : e \in programCache_}) :
        /\ listening' = FALSE
        /\ lostPending' = FALSE
        /\ restoredPending' = FALSE
        /\ calls' = IF guarded /\ ctxLost THEN <<>>
                    ELSE DeleteCalls(programKeys)
        /\ last' = Call("disposeInternal", <<>>, UNDEFINED, FALSE)
        /\ UNCHANGED <<fixedVars, frameVars, ctxLost, validFrom, nextHandle,
                       cacheVars, bindingVars, programs, attached, lastProgram, lastBound>>

\* Faulty variant: the deletes are issued on a lost context too.
disposeInternal_Unguarded == disposeInternalWhen(FALSE)

disposeInternal == disposeInternalWhen(TRUE)

(***************************************************************************)
(* prepareDraw(size, pixelRatio)                                           *)
(***************************************************************************)
\* The init calls of the loop over the passes, given the order it visits.
InitCalls(order, size, pixelRatio) ==
    [k \in 1..Len(order) |-> <<"init", order[k], size, pixelRatio>>]

Reversed(s) == [k \in 1..Len(s) |-> s[Len(s) - k + 1]]

prepareDrawIn(order, size, pixelRatio) ==
    \E vals \in FrameValues(uniforms_) :
        LET r == ApplyFrom(ApplyStart, 1, vals)
            prefix == <<<<"useProgram", currentProgram_>>>>
                      \o InitCalls(order, size, pixelRatio)
                      \o <<<<"bindTexture", "TEXTURE_2D", NULL>>,
                           <<"clearColor", 0, 0, 0, 0>>,
                           <<"clear", "COLOR_BUFFER_BIT">>,
                           <<"enable", "BLEND">>,
                           <<"blendFunc", "ONE", "ONE_MINUS_SRC_ALPHA">>>>
        IN  /\ Applied(r, prefix)
            /\ canvas_' = [width |-> size[1] * pixelRatio,
                           height |-> size[2] * pixelRatio,
                           styleWidth |-> ToString(size[1]) \o "px",
                           styleHeight |-> ToString(size[2]) \o "px"]
            /\ last' = Call("prepareDraw", <<size, pixelRatio, vals>>,
                            UNDEFINED, r.threw)
            /\ UNCHANGED <<fixedVars, ctxVars, cacheVars, currentProgram_,
                           attribLocations_, lookedUpAttribs, programs, attached, lastProgram,
                           lastBound>>

\* Faulty variant: the passes are initialized in declaration order.
prepareDraw_ForwardInit(size, pixelRatio) ==
    prepareDrawIn(postProcessPasses, size, pixelRatio)

prepareDraw(size, pixelRatio) ==
    prepareDrawIn(Reversed(postProcessPasses), size, pixelRatio)

(***************************************************************************)
(* The context is lost and restored; the helper's two event handlers.      *)
(***************************************************************************)
\* The browser loses the context: every handle dies, the event is queued
\* for the listener, if one is registered.
LoseContext ==
    /\ ~ctxLost
    /\ ctxLost' = TRUE
    /\ lostPending' = listening
    /\ validFrom' = nextHandle
    /\ calls' = <<>>
    /\ last' = Call("LoseContext", <<>>, UNDEFINED, FALSE)
    /\ UNCHANGED <<fixedVars, frameVars, restoredPending, listening, nextHandle,
                   cacheVars, bindingVars, programs, attached, lastProgram, lastBound>>

\* The browser restores the context, after the lost event was delivered.
RestoreContext ==
    /\ ctxLost
    /\ ~lostPending
    /\ ctxLost' = FALSE
    /\ restoredPending' = listening
    /\ calls' = <<>>
    /\ last' = Call("RestoreContext", <<>>, UNDEFINED, FALSE)
    /\ UNCHANGED <<fixedVars, frameVars, lostPending, listening, validFrom, nextHandle,
                   cacheVars, bindingVars, programs, attached, lastProgram, lastBound>>

\* Faulty variant: the handler forgets the shader cache.
handleWebGLContextLost_KeepsShaders ==
    /\ lostPending
    /\ ~restoredPending
    /\ lostPending' = FALSE
    /\ bufferCache_' = {}
    /\ programCache_' = {}
    /\ currentProgram_' = NULL
    /\ lastBound' = [b \in Buffers |-> {}]
    /\ attached' = {}
    /\ lookedUpUniforms' = IF currentProgram_ = NULL THEN lookedUpUniforms ELSE {}
    /\ lookedUpAttribs' = IF currentProgram_ = NULL THEN lookedUpAttribs ELSE {}
    /\ calls' = <<>>
    /\ last' = Call("handleWebGLContextLost", <<>>, UNDEFINED, FALSE)
    /\ UNCHANGED <<fixedVars, frameVars, ctxLost, restoredPending, listening, validFrom,
                   nextHandle, shaderCache_, uniformLocations_,
                   attribLocations_, programs, lastProgram>>

\* Faulty variant: the handler forgets the buffer cache.
handleWebGLContextLost_KeepsBuffers ==
    /\ lostPending
    /\ ~restoredPending
    /\ lostPending' = FALSE
    /\ shaderCache_' = {}
    /\ programCache_' = {}
    /\ currentProgram_' = NULL
    /\ lastBound' = [b \in Buffers |-> {}]
    /\ attached' = {}
    /\ lookedUpUniforms' = IF currentProgram_ = NULL THEN lookedUpUniforms ELSE {}
    /\ lookedUpAttribs' = IF currentProgram_ = NULL THEN lookedUpAttribs ELSE {}
    /\ calls' = <<>>
    /\ last' = Call("handleWebGLContextLost", <<>>, UNDEFINED, FALSE)
    /\ UNCHANGED <<fixedVars, frameVars, ctxLost, restoredPending, listening,
                   validFrom, nextHandle, bufferCache_, uniformLocations_,
                   attribLocations_, programs, lastProgram>>

\* Faulty variant: the handler forgets the program cache.
handleWebGLContextLost_KeepsPrograms ==
    /\ lostPending
    /\ ~restoredPending
    /\ lostPending' = FALSE
    /\ bufferCache_' = {}
    /\ shaderCache_' = {}
    /\ currentProgram_' = NULL
    /\ lastBound' = [b \in Buffers |-> {}]
    /\ attached' = {}
    /\ lookedUpUniforms' = IF currentProgram_ = NULL THEN lookedUpUniforms ELSE {}
    /\ lookedUpAttribs' = IF currentProgram_ = NULL THEN lookedUpAttribs ELSE {}
    /\ calls' = <<>>
    /\ last' = Call("handleWebGLContextLost", <<>>, UNDEFINED, FALSE)
    /\ UNCHANGED <<fixedVars, frameVars, ctxLost, restoredPending, listening,
                   validFrom, nextHandle, programCache_, uniformLocations_,
                   attribLocations_, programs, lastProgram>>

handleWebGLContextLost ==
    /\ lostPending
    /\ ~restoredPending
    /\ lostPending' = FALSE
    /\ bufferCache_' = {}
    /\ shaderCache_' = {}
    /\ programCache_' = {}
    /\ currentProgram_' = NULL
    /\ lastBound' = [b \in Buffers |-> {}]
    /\ attached' = {}
    /\ lookedUpUniforms' = IF currentProgram_ = NULL THEN lookedUpUniforms ELSE {}
    /\ lookedUpAttribs' = IF currentProgram_ = NULL THEN lookedUpAttribs ELSE {}
    /\ calls' = <<>>
    /\ last' = Call("handleWebGLContextLost", <<>>, UNDEFINED, FALSE)
    /\ UNCHANGED <<fixedVars, frameVars, ctxLost, restoredPending, listening, validFrom,
                   nextHandle, uniformLocations_, attribLocations_, programs, lastProgram>>

\* Faulty variant: the handler starts the location maps afresh.
handleWebGLContextRestored_ResetsMaps ==
    /\ restoredPending
    /\ restoredPending' = FALSE
    /\ uniformLocations_' = EmptyMap
    /\ attribLocations_' = EmptyMap
    /\ calls' = <<>>
    /\ last' = Call("handleWebGLContextRestored", <<>>, UNDEFINED, FALSE)
    /\ UNCHANGED <<fixedVars, frameVars, ctxLost, listening, lostPending,
                   validFrom, nextHandle, cacheVars, currentProgram_,
                   lookedUpUniforms, lookedUpAttribs, programs, attached, lastProgram,
                   lastBound>>

handleWebGLContextRestored ==
    /\ restoredPending
    /\ restoredPending' = FALSE
    /\ calls' = <<>>
    /\ last' = Call("handleWebGLContextRestored", <<>>, UNDEFINED, FALSE)
    /\ UNCHANGED <<fixedVars, frameVars, ctxLost, listening, lostPending, validFrom,
                   nextHandle, cacheVars, bindingVars, programs, attached, lastProgram, lastBound>>

(***************************************************************************)
(* Specifications.  The helper's state is the product of parts that do not *)
(* read each other, so each specification drives the operations of one     *)
(* part.                                                                   *)
(***************************************************************************)
Lifecycle ==
    \/ LoseContext
    \/ handleWebGLContextLost
    \/ RestoreContext
    \/ handleWebGLContextRestored

\* The buffer cache and the indexed draw.
DrawIndices == {0, 10, 20}
Next ==
    \/ \E target \in Targets, buf \in Buffers : bindBuffer(target, buf)
    \/ \E buf \in Buffers : deleteBuffer(buf)
    \/ \E start \in DrawIndices, end \in DrawIndices : drawElements(start, end)
    \/ Lifecycle

Spec == Init /\ [][Next]_vars

\* The three caches and the active program across context losses.
NextCaches ==
    \/ bindBuffer(ARRAY_BUFFER, "bufA")
    \/ deleteBuffer("bufA")
    \/ getShader("frag")
    \/ getProgram("frag", "vert")
    \/ \E program \in programs \cup {NULL} : useProgram(program)
    \/ Lifecycle

SpecCaches == Init /\ [][NextCaches]_vars

\* The binding tracker: a program, the active program, the location maps.
NextBinding ==
    \/ getProgram("frag", "vert")
    \/ \E program \in programs \cup {NULL} : useProgram(program)
    \/ \E name \in UniformNames : getUniformLocation(name)
    \/ \E name \in AttribNames : getAttributeLocation(name)
    \/ \E frameState \in FrameStates : applyFrameState(frameState)
    \/ Lifecycle

SpecBinding == Init /\ [][NextBinding]_vars

\* The post-processing pipeline of one frame.
Sizes == {<<100, 100>>, <<200, 50>>}
PixelRatios == {1, 2}
NextPipeline ==
    \/ \E size \in Sizes, pixelRatio \in PixelRatios : prepareDraw(size, pixelRatio)
    \/ finalizeDraw
    \/ getProgram("frag", "vert")
    \/ \E program \in programs \cup {NULL} : useProgram(program)

SpecPipeline == InitPipeline /\ [][NextPipeline]_vars

\* The custom uniforms over the frames, across context losses.
NextUniforms ==
    \/ applyUniforms
    \/ getProgram("frag", "vert")
    \/ \E program \in programs \cup {NULL} : useProgram(program)
    \/ Lifecycle

SpecUniforms == InitUniforms /\ [][NextUniforms]_vars

\* The custom uniforms of every shape over the frames.
NextDispatch ==
    \/ applyUniforms
    \/ getProgram("frag", "vert")
    \/ \E program \in programs \cup {NULL} : useProgram(program)

SpecDispatch == InitDispatch /\ [][NextDispatch]_vars

\* Disposal, with the caches filled and the context lost and restored.
NextDispose ==
    \/ bindBuffer(ARRAY_BUFFER, "bufA")
    \/ \E f \in {"frag", "badFrag"} : getProgram(f, "vert")
    \/ disposeInternal
    \/ Lifecycle

SpecDispose == Init /\ [][NextDispose]_vars

\* The shader cache: every shader, the one that does not compile included.
NextShaders ==
    \/ \E shaderObject \in Shaders : getShader(shaderObject)
    \/ Lifecycle

SpecShaders == Init /\ [][NextShaders]_vars

\* The program cache: a pair of shaders in both orders, and the shader that
\* does not compile paired with itself.
ProgramPairs == {<<"frag", "vert">>, <<"vert", "frag">>, <<"badFrag", "badFrag">>}
NextPrograms ==
    \/ \E pair \in ProgramPairs : getProgram(pair[1], pair[2])
    \/ Lifecycle

SpecPrograms == Init /\ [][NextPrograms]_vars

(***************************************************************************)
(* Helpers of the properties.                                              *)
(***************************************************************************)
\* The calls named `name` among the calls `cs`.
CallsNamed(cs, name) == {i \in 1..Len(cs) : cs[i][1] = name}
Issued(name) == CallsNamed(calls, name) # {}
\* Each key has at most one entry.
OneEntryPerKey(obj) == \A e1 \in obj, e2 \in obj : e1.key = e2.key => e1 = e2
\* A handle created before the last loss of the context.
Stale(h) == h # NULL /\ h < validFrom

(***************************************************************************)
(* C1.  Buffer cache stability: a bindBuffer(target, D) that follows a     *)
(* bindBuffer of D with no context-lost event and no deleteBuffer(D) in    *)
(* between binds the handle the earlier call bound and issues no           *)
(* createBuffer; and the buffer cache never holds two entries for one      *)
(* descriptor identity.                                                    *)
(***************************************************************************)
C1_Rebind ==
    \A buf \in Buffers :
        (last'.op = "bindBuffer" /\ last'.args[2] = buf /\ lastBound[buf] # {})
        => /\ CallsNamed(calls', "createBuffer") = {}
           /\ \A i \in CallsNamed(calls', "bindBuffer") :
                 calls'[i][3] \in lastBound[buf]
           /\ CallsNamed(calls', "bindBuffer") # {}

C1_CacheStability ==
    /\ [][C1_Rebind]_vars
    /\ [](OneEntryPerKey(bufferCache_))

\* A second bindBuffer of a cached descriptor, on a real handle, while the
\* other descriptor is cached too.
C1_Witness ==
    /\ last.op = "bindBuffer"
    /\ ~Issued("createBuffer")
    /\ Cardinality(bufferCache_) = 2
    /\ \E i \in CallsNamed(calls, "bindBuffer") : calls[i][3] # NULL

(***************************************************************************)
(* C2.  Invalidation completeness: right after the context-lost handler    *)
(* the three caches are empty and no program is active; and once the lost  *)
(* event has been delivered, bindBuffer, getShader and getProgram never    *)
(* use (bind, return or attach) a handle created before the loss.          *)
(***************************************************************************)
\* The GPU handles the last acquire call bound, returned or attached.
HandlesUsed ==
    CASE last.op = "bindBuffer" ->
           {calls[i][3] : i \in CallsNamed(calls, "bindBuffer")}
      [] last.op = "getShader" -> {last.ret}
      [] last.op = "getProgram" ->
           {last.ret} \cup {calls[i][3] : i \in CallsNamed(calls, "attachShader")}
      [] OTHER -> {}

C2_InvalidationComplete ==
    /\ last.op = "handleWebGLContextLost"
         => /\ bufferCache_ = {}
            /\ shaderCache_ = {}
            /\ programCache_ = {}
            /\ currentProgram_ = NULL
    /\ ~lostPending => \A h \in HandlesUsed : ~Stale(h)

\* After a loss that killed handles, getProgram returns a program created
\* since and attaches shaders created since.
C2_Witness ==
    /\ last.op = "getProgram"
    /\ ~lostPending
    /\ validFrom > 1
    /\ \A h \in HandlesUsed : h >= validFrom
    /\ Cardinality(HandlesUsed) = 3

(***************************************************************************)
(* C3.  useProgram(P) with P the active program returns false, issues no   *)
(* call to the context and leaves both location maps as they are; with any *)
(* other P it returns true, activates P and leaves both maps empty.        *)
(***************************************************************************)
C3_Step ==
    last'.op = "useProgram" =>
        LET P == last'.args[1]
        IN  IF P = currentProgram_
            THEN /\ last'.ret = FALSE
                 /\ calls' = <<>>
                 /\ currentProgram_' = currentProgram_
                 /\ uniformLocations_' = uniformLocations_
                 /\ attribLocations_' = attribLocations_
            ELSE /\ last'.ret = TRUE
                 /\ calls' = <<<<"useProgram", P>>>>
                 /\ currentProgram_' = P
                 /\ uniformLocations_' = EmptyMap
                 /\ attribLocations_' = EmptyMap

C3_UseProgram == [][C3_Step]_vars

\* A change to a real program: true is returned and the maps are empty.
C3_Witness ==
    /\ last.op = "useProgram"
    /\ last.ret = TRUE
    /\ currentProgram_ # NULL
    /\ uniformLocations_ = EmptyMap
    /\ attribLocations_ = EmptyMap

(***************************************************************************)
(* C4.  Location lookups are memoized per binding generation, absent       *)
(* results included: a getUniformLocation(name) or getAttributeLocation    *)
(* (name) for a name the context was already asked for since the active    *)
(* program last changed issues no lookup, whatever the context answered.   *)
(***************************************************************************)
C4_Step ==
    /\ (last'.op = "getUniformLocation" /\ last'.args[1] \in lookedUpUniforms)
          => calls' = <<>>
    /\ (last'.op = "getAttributeLocation" /\ last'.args[1] \in lookedUpAttribs)
          => calls' = <<>>

C4_MemoizedOnce == [][C4_Step]_vars

(***************************************************************************)
(* C5.  Locations never survive a change of the active program: whenever   *)
(* currentProgram_ changes value, by whatever operation, both location     *)
(* maps hold no entry right after.                                         *)
(***************************************************************************)
C5_Step ==
    currentProgram_' # currentProgram_
        => uniformLocations_'.map = {} /\ attribLocations_'.map = {}

C5_ClearedOnChange == [][C5_Step]_vars

(***************************************************************************)
(* C6.  deleteBuffer(D) with a cache entry for D removes the entry and     *)
(* issues one deleteBuffer on its handle, or no call when the context is   *)
(* lost.  As claimed: with no entry for D it is an error in every state.   *)
(* As amended: with no entry it throws when the context is not lost, and   *)
(* when the context is lost it returns normally, issues no call and        *)
(* leaves the cache as it is.                                              *)
(***************************************************************************)
C6_Cached(buf) ==
    /\ ~Has(bufferCache_', getUid(buf))
    /\ bufferCache_' = Delete(bufferCache_, getUid(buf))
    /\ ~last'.err
    /\ calls' = IF ctxLost THEN <<>>
                ELSE <<<<"deleteBuffer", Get(bufferCache_, getUid(buf)).buffer>>>>

C6_OriginalStep ==
    last'.op = "deleteBuffer" =>
        LET buf == last'.args[1]
        IN  IF Has(bufferCache_, getUid(buf)) THEN C6_Cached(buf)
            ELSE last'.err

C6_Original == [][C6_OriginalStep]_vars

C6_AmendedStep ==
    last'.op = "deleteBuffer" =>
        LET buf == last'.args[1]
        IN  IF Has(bufferCache_, getUid(buf)) THEN C6_Cached(buf)
            ELSE /\ last'.err = ~ctxLost
                 /\ calls' = <<>>
                 /\ bufferCache_' = bufferCache_

C6_DeleteBuffer == [][C6_AmendedStep]_vars

\* deleteBuffer threw: the descriptor had no entry on a live context, and
\* the other descriptor's entry is still cached.
C6_Witness ==
    /\ last.op = "deleteBuffer"
    /\ last.err
    /\ ~ctxLost
    /\ bufferCache_ # {}

(***************************************************************************)
(* C7.  finalizeDraw applies every pass exactly once, in declaration       *)
(* order: the i-th call applies pass i with pass i+1 as its target, the    *)
(* last one with no target; the calls are synchronous, so the order of the *)
(* calls is the order in which the applies complete.                       *)
(***************************************************************************)
C7_FinalizeDraw ==
    last.op = "finalizeDraw" =>
        LET n == Len(postProcessPasses)
        IN  /\ Len(calls) = n
            /\ \A i \in 1..n :
                 calls[i] = <<"apply", postProcessPasses[i],
                              IF i < n THEN postProcessPasses[i + 1]
                              ELSE NoTarget>>
            /\ options.postProcesses.given
                 => postProcessPasses = options.postProcesses.list

\* finalizeDraw on a pipeline of two passes.
C7_Witness ==
    /\ last.op = "finalizeDraw"
    /\ Len(postProcessPasses) = 2
    /\ Len(calls) = 2

(***************************************************************************)
(* C8.  prepareDraw(size, pixelRatio) activates the current program, then  *)
(* calls init(size, pixelRatio) once on every pass, last pass first, then  *)
(* unbinds the texture, clears, enables blending and applies the custom    *)
(* uniforms.  As claimed: with no passes configured the pipeline is one    *)
(* default pass.  As amended: the pipeline is one default pass when the    *)
(* postProcesses option is not given; a given list, the empty one          *)
(* included, yields exactly its passes.                                    *)
(***************************************************************************)
UniformCalls ==
    {"createTexture", "activeTexture", "texParameteri", "texImage2D",
     "getUniformLocation", "uniform1i", "uniform1f", "uniform2f", "uniform3f",
     "uniform4f"}

C8_Order ==
    last.op = "prepareDraw" =>
        LET n == Len(postProcessPasses)
            size == last.args[1]
            pixelRatio == last.args[2]
        IN  /\ Len(calls) >= n + 6
            /\ calls[1] = <<"useProgram", currentProgram_>>
            /\ \A k \in 1..n :
                 calls[1 + k] = <<"init", postProcessPasses[n - k + 1],
                                  size, pixelRatio>>
            /\ CallsNamed(calls, "init") = 2..(n + 1)
            /\ calls[n + 2][1] = "bindTexture"
            /\ calls[n + 3][1] = "clearColor"
            /\ calls[n + 4][1] = "clear"
            /\ calls[n + 5] = <<"enable", "BLEND">>
            /\ calls[n + 6][1] = "blendFunc"
            /\ \A i \in 1..Len(calls) :
                 calls[i][1] \in UniformCalls => i > n + 6
            /\ \A i \in (n + 7)..Len(calls) :
                 calls[i][1] \in UniformCalls \cup {"bindTexture"}

C8_Original ==
    /\ C8_Order
    /\ (~options.postProcesses.given \/ Len(options.postProcesses.list) = 0)
         => postProcessPasses = <<DefaultPass>>

C8_PrepareDraw ==
    /\ C8_Order
    /\ ~options.postProcesses.given => postProcessPasses = <<DefaultPass>>
    /\ options.postProcesses.given
         => postProcessPasses = options.postProcesses.list

\* A prepareDraw over two passes that went on to set the custom uniforms.
C8_Witness ==
    /\ last.op = "prepareDraw"
    /\ Len(postProcessPasses) = 2
    /\ ~last.err
    /\ Issued("uniform1i")
    /\ Issued("uniform1f")

(***************************************************************************)
(* C9.  The index width agrees between upload and draw: bindBuffer uploads *)
(* an element array as 32-bit unsigned integers iff the capability flag is *)
(* set, as 16-bit ones otherwise, and a vertex array as 32-bit floats;     *)
(* drawElements(start, end) draws triangles, end - start of them, of the   *)
(* element type of that width, from byte offset start * 4 or start * 2.    *)
(***************************************************************************)
C9_IndexWidth ==
    /\ last.op = "bindBuffer" =>
         /\ Issued("bufferData")
         /\ \A i \in CallsNamed(calls, "bufferData") :
              calls[i][3].type =
                IF last.args[1] = ELEMENT_ARRAY_BUFFER
                THEN IF hasOESElementIndexUint THEN "Uint32Array"
                     ELSE "Uint16Array"
                ELSE "Float32Array"
    /\ last.op = "drawElements" =>
         calls = <<<<"drawElements", "TRIANGLES", last.args[2] - last.args[1],
                     IF hasOESElementIndexUint THEN "UNSIGNED_INT"
                     ELSE "UNSIGNED_SHORT",
                     last.args[1] * (IF hasOESElementIndexUint THEN 4 ELSE 2)>>>>

\* drawElements(10, 20) without the extension: 10 indices from byte 20.
C9_Witness ==
    /\ last.op = "drawElements"
    /\ ~hasOESElementIndexUint
    /\ last.args = <<10, 20>>
    /\ calls = <<<<"drawElements", "TRIANGLES", 10, "UNSIGNED_SHORT", 20>>>>

(***************************************************************************)
(* C10.  Texture reuse for image-valued custom uniforms.  In both forms:   *)
(* a uniform that holds a texture keeps it through every later frame,      *)
(* and a frame that uploads the uniform's pixels binds that texture.  As   *)
(* claimed: createTexture is issued at most once per uniform, whatever the *)
(* frames.  As amended: createTexture is issued for a uniform only in a    *)
(* frame where its value is image-like and it holds no texture (none was   *)
(* created yet, or the create call answered null on a lost context), and   *)
(* never for a uniform that holds one.                                     *)
(***************************************************************************)
\* The call that is the k-th of the calls named `name` in cs.
KthCall(cs, name, k) ==
    CHOOSE i \in CallsNamed(cs, name) :
        Cardinality({j \in CallsNamed(cs, name) : j <= i}) = k

\* How many of the uniforms up to the i-th have an image-like value.
ImageRank(vals, i) == Cardinality({j \in 1..i : vals[j] \in ImageShapes})

\* The frame's upload for uniform i, if the frame got to it, binds `texture`.
C10_UploadsInto(i, texture) ==
    LET vals == last'.args[1]
        k == ImageRank(vals, i)
    IN  (vals[i] \in ImageShapes
           /\ k <= Cardinality(CallsNamed(calls', "bindTexture")))
        => LET at == KthCall(calls', "bindTexture", k)
           IN  /\ calls'[at] = <<"bindTexture", "TEXTURE_2D", texture>>
               /\ calls'[at + 4] = <<"texImage2D", vals[i]>>

C10_KeepsTexture ==
    last'.op = "applyUniforms" =>
        \A i \in 1..Len(uniforms_) :
            ~TextureFalsy(uniforms_[i].texture)
            => /\ uniforms_'[i].texture = uniforms_[i].texture
               /\ C10_UploadsInto(i, uniforms_[i].texture)

C10_Original ==
    /\ [][C10_KeepsTexture]_vars
    /\ [](\A i \in 1..Len(uniforms_) : textureCreates[i] <= 1)

C10_CreatesWhenNone ==
    last'.op = "applyUniforms" =>
        \A i \in 1..Len(uniforms_) :
            textureCreates'[i] # textureCreates[i]
            => /\ last'.args[1][i] \in ImageShapes
               /\ TextureFalsy(uniforms_[i].texture)

C10_TextureReuse ==
    /\ [][C10_KeepsTexture]_vars
    /\ [][C10_CreatesWhenNone]_vars

\* A later frame of two image-valued uniforms: both textures, each created
\* once, are uploaded into again and none is created.
C10_Witness ==
    /\ last.op = "applyUniforms"
    /\ ~last.err
    /\ Len(uniforms_) = 2
    /\ \A i \in 1..2 : uniforms_[i].texture > NULL /\ textureCreates[i] = 1
    /\ ~Issued("createTexture")
    /\ Cardinality(CallsNamed(calls, "texImage2D")) = 2

(***************************************************************************)
(* C11.  Texture units in applyUniforms: in every call, the k-th custom    *)
(* uniform (k from 0, in declaration order) whose value of the frame is    *)
(* image-like is bound to texture unit k, its texture bound next, and its  *)
(* sampler uniform is set to k; a uniform with a number, an array or an    *)
(* unsupported value takes no unit; the count starts at 0 in every call.   *)
(***************************************************************************)
\* The image-like uniform that is the (k+1)-th of the frame is given unit k
\* by the (k+1)-th activeTexture call and the (k+1)-th uniform1i call.
C11_UnitOf(vals, i) ==
    LET k == ImageRank(vals, i) - 1
        at == KthCall(calls, "activeTexture", k + 1)
        set == KthCall(calls, "uniform1i", k + 1)
    IN  /\ calls[at] = <<"activeTexture", k>>
        /\ calls[at + 1] = <<"bindTexture", "TEXTURE_2D", uniforms_[i].texture>>
        /\ at < set
        /\ calls[set] = <<"uniform1i",
                          LocationOf(uniformLocations_, uniforms_[i].name), k>>

C11_TextureUnits ==
    last.op = "applyUniforms" =>
        LET vals == last.args[1]
            images == {i \in 1..Len(vals) : vals[i] \in ImageShapes}
        IN  /\ Cardinality(CallsNamed(calls, "activeTexture")) = Cardinality(images)
            /\ Cardinality(CallsNamed(calls, "uniform1i")) = Cardinality(images)
            /\ \A i \in images : C11_UnitOf(vals, i)

\* What holds of every call, failed or not: the units handed out are 0, 1,
\* 2, ... in the order of the image-like uniforms, and a call that returns
\* normally has given every image-like uniform its unit and set its sampler.
C11_UnitsIssued ==
    last.op = "applyUniforms" =>
        LET vals == last.args[1]
            images == {i \in 1..Len(vals) : vals[i] \in ImageShapes}
            units == CallsNamed(calls, "activeTexture")
            sets == CallsNamed(calls, "uniform1i")
        IN  /\ Cardinality(sets) <= Cardinality(units)
            /\ Cardinality(units) <= Cardinality(images)
            /\ \A k \in 1..Cardinality(units) :
                 calls[KthCall(calls, "activeTexture", k)] = <<"activeTexture", k - 1>>
            /\ \A k \in 1..Cardinality(sets) :
                 calls[KthCall(calls, "uniform1i", k)][3] = k - 1
            /\ ~last.err => \A i \in images : C11_UnitOf(vals, i)

\* A frame of an image, a number and an image, all applied: units 0 and 1.
C11_Witness ==
    /\ last.op = "applyUniforms"
    /\ ~last.err
    /\ last.args[1] = <<"canvas", "number", "imageData">>
    /\ \E i \in 1..Len(calls) : calls[i] = <<"activeTexture", 1>>
    /\ \E i \in 1..Len(calls) : calls[i][1] = "uniform1i" /\ calls[i][3] = 1

(***************************************************************************)
(* C12.  Dispatch by shape in applyUniforms: in every call, a number       *)
(* issues one uniform1f, an array of 2, 3 or 4 numbers one uniform2f,      *)
(* uniform3f or uniform4f, an image one uniform1i; a function is called    *)
(* once and what it returns is dispatched the same way; a value of any     *)
(* other shape issues no set; the call raises no error and every uniform   *)
(* of the list is dispatched, whatever the shapes before it.               *)
(***************************************************************************)
SetCalls == {"uniform1i", "uniform1f", "uniform2f", "uniform3f", "uniform4f"}

\* The set call a value of the given shape is dispatched to, "" for none.
SetterFor(shape) ==
    IF shape \in ImageShapes THEN "uniform1i"
    ELSE IF shape = "number" THEN "uniform1f"
    ELSE IF shape = "vec2" THEN "uniform2f"
    ELSE IF shape = "vec3" THEN "uniform3f"
    ELSE IF shape = "vec4" THEN "uniform4f"
    ELSE ""

\* The uniforms of the frame that are to be set, in declaration order.
ToSet(vals) ==
    SelectSeq([i \in 1..Len(vals) |-> i], LAMBDA i : SetterFor(vals[i]) # "")

\* The set calls of the last operation, in call order.
SetsIssued == SelectSeq(calls, LAMBDA c : c[1] \in SetCalls)

\* The j-th set call is the one of the j-th uniform to be set: its setter,
\* on the location of its name.
C12_SetsMatch(vals, n) ==
    \A j \in 1..n :
        LET i == ToSet(vals)[j]
        IN  /\ SetsIssued[j][1] = SetterFor(vals[i])
            /\ SetsIssued[j][2] = LocationOf(uniformLocations_, uniforms_[i].name)
            /\ vals[i] \notin ImageShapes => SetsIssued[j][3] = vals[i]

\* Each function among the values was called once, in declaration order.
C12_ProducersOnce(n) ==
    LET producers == SelectSeq([i \in 1..n |-> i],
                               LAMBDA i : uniforms_[i].value = Producer)
    IN  SelectSeq(calls, LAMBDA c : c[1] = "value")
          = [j \in 1..Len(producers) |-> <<"value", uniforms_[producers[j]].name>>]

C12_Dispatch ==
    last.op = "applyUniforms" =>
        LET vals == last.args[1]
        IN  /\ ~last.err
            /\ Len(SetsIssued) = Len(ToSet(vals))
            /\ C12_SetsMatch(vals, Len(SetsIssued))
            /\ C12_ProducersOnce(Len(vals))

\* What holds of every call, failed or not: the set calls issued are those
\* of the first uniforms to be set, one each and in order; a value of an
\* unsupported shape issues none and raises no error; and a call that
\* returns normally has dispatched every uniform of the list.
C12_DispatchIssued ==
    last.op = "applyUniforms" =>
        LET vals == last.args[1]
        IN  /\ Len(SetsIssued) <= Len(ToSet(vals))
            /\ C12_SetsMatch(vals, Len(SetsIssued))
            /\ ToSet(vals) = <<>> => ~last.err
            /\ ~last.err => /\ Len(SetsIssued) = Len(ToSet(vals))
                            /\ C12_ProducersOnce(Len(vals))

\* A frame of an unsupported array, a function returning a number and a
\* vector: the first is skipped, the other two are set.
C12_Witness ==
    /\ last.op = "applyUniforms"
    /\ ~last.err
    /\ last.args[1] = <<"array5", "number", "vec3">>
    /\ uniforms_[2].value = Producer
    /\ Len(SetsIssued) = 2
    /\ SetsIssued[1][1] = "uniform1f"
    /\ SetsIssued[2][1] = "uniform3f"

(***************************************************************************)
(* C13.  disposeInternal issues no call to the context when the context is *)
(* lost; when it is not lost it issues one deleteBuffer for every entry of *)
(* the buffer cache, one deleteProgram for every entry of the program      *)
(* cache and one deleteShader for every entry of the shader cache, each on *)
(* the handle the entry holds, and no other call.                          *)
(***************************************************************************)
\* The handles the entries of a cache hold, as a bag.
BufferHandles == [h \in {e.val.buffer : e \in bufferCache_} |->
                    Cardinality({e \in bufferCache_ : e.val.buffer = h})]
HandlesOf(cache) == [h \in {e.val : e \in cache} |->
                       Cardinality({e \in cache : e.val = h})]
\* The arguments of the calls named `name`, as a bag.
Deleted(name) ==
    LET at == CallsNamed(calls, name)
    IN  [h \in {calls[i][2] : i \in at} |->
            Cardinality({i \in at : calls[i][2] = h})]

C13_Disposal ==
    last.op = "disposeInternal" =>
        IF ctxLost THEN calls = <<>>
        ELSE /\ Deleted("deleteBuffer") = BufferHandles
             /\ Deleted("deleteProgram") = HandlesOf(programCache_)
             /\ Deleted("deleteShader") = HandlesOf(shaderCache_)
             /\ \A i \in 1..Len(calls) :
                  calls[i][1] \in {"deleteBuffer", "deleteProgram", "deleteShader"}

\* A disposal on a live context with a buffer, two programs and three
\* shaders cached: six delete calls.
C13_Witness ==
    /\ last.op = "disposeInternal"
    /\ ~ctxLost
    /\ Cardinality(bufferCache_) = 1
    /\ Cardinality(programCache_) = 2
    /\ Cardinality(shaderCache_) = 3
    /\ Len(calls) = 6
    /\ \A i \in 1..Len(calls) : calls[i][2] # NULL

\* A disposal on a lost context with entries cached: no call.
C13_WitnessLost ==
    /\ last.op = "disposeInternal"
    /\ ctxLost
    /\ bufferCache_ # {}
    /\ calls = <<>>

(***************************************************************************)
(* C14.  The restored handler recreates nothing: it leaves the three       *)
(* caches, the active program and both location maps as they are and       *)
(* issues no call.  The caches are filled again only by the acquire calls: *)
(* a step gives a cache a new key only if it is bindBuffer (the key of its *)
(* buffer), getShader (the key of its shader) or getProgram (the key of    *)
(* its pair and the keys of its two shaders); so caches that are empty     *)
(* stay empty through every other step.                                    *)
(***************************************************************************)
Keys(obj) == {e.key : e \in obj}
CachesEmpty == bufferCache_ = {} /\ shaderCache_ = {} /\ programCache_ = {}

\* The keys the operation named in `call` may add to each cache.
MayAdd(call) ==
    CASE call.op = "bindBuffer" ->
           [buffers |-> {getUid(call.args[2])}, shaders |-> {}, programs |-> {}]
      [] call.op = "getShader" ->
           [buffers |-> {}, shaders |-> {getUid(call.args[1])}, programs |-> {}]
      [] call.op = "getProgram" ->
           [buffers |-> {},
            shaders |-> {getUid(call.args[1]), getUid(call.args[2])},
            programs |-> {ProgramKey(call.args[1], call.args[2])}]
      [] OTHER -> [buffers |-> {}, shaders |-> {}, programs |-> {}]

C14_Step ==
    /\ last'.op = "handleWebGLContextRestored"
         => /\ UNCHANGED <<bufferCache_, shaderCache_, programCache_,
                           currentProgram_, uniformLocations_, attribLocations_>>
            /\ calls' = <<>>
    /\ Keys(bufferCache_') \ Keys(bufferCache_) \subseteq MayAdd(last').buffers
    /\ Keys(shaderCache_') \ Keys(shaderCache_) \subseteq MayAdd(last').shaders
    /\ Keys(programCache_') \ Keys(programCache_) \subseteq MayAdd(last').programs
    /\ (CachesEmpty /\ last'.op \notin {"bindBuffer", "getShader", "getProgram"})
         => CachesEmpty'

C14_NoRecreation == [][C14_Step]_vars

\* The restored handler has run after a loss that emptied caches which had
\* held handles: the caches are still empty and no program is active.
C14_Witness ==
    /\ last.op = "handleWebGLContextRestored"
    /\ validFrom > 3
    /\ ~ctxLost
    /\ CachesEmpty
    /\ currentProgram_ = NULL
    /\ uniformLocations_ = EmptyMap

(***************************************************************************)
(* C15.  getShader(S) creates and compiles a shader only when the cache    *)
(* has no entry for S; when the compilation fails it logs a diagnostic,    *)
(* still caches and returns the handle and does not fail; with an entry    *)
(* for S it returns the cached handle and issues no call; and an entry     *)
(* stays as it is until the context-lost handler runs, so the failure is   *)
(* logged once.                                                            *)
(***************************************************************************)
\* The names of a sequence of calls.
Names(cs) == [i \in 1..Len(cs) |-> cs[i][1]]

C15_Step ==
    /\ last'.op = "getShader" =>
         LET S == last'.args[1]
             failed == ctxLost \/ ~SourceCompiles(S)
         IN  /\ ~last'.err
             /\ Has(shaderCache_', getUid(S))
             /\ Get(shaderCache_', getUid(S)) = last'.ret
             /\ IF Has(shaderCache_, getUid(S))
                THEN /\ calls' = <<>>
                     /\ last'.ret = Get(shaderCache_, getUid(S))
                ELSE Names(calls') =
                       <<"createShader", "shaderSource", "compileShader",
                         "getShaderParameter">>
                       \o (IF failed THEN <<"getShaderInfoLog", "console.error">>
                           ELSE <<>>)
    /\ last'.op # "handleWebGLContextLost" =>
         \A e \in shaderCache_ : e \in shaderCache_'

C15_GetShader == [][C15_Step]_vars

\* A later getShader of the shader that failed to compile on a live
\* context: the handle cached then is returned, nothing is called.
C15_Witness ==
    /\ last.op = "getShader"
    /\ last.args = <<"badFrag">>
    /\ ~ctxLost
    /\ last.ret > NULL
    /\ last.ret >= validFrom
    /\ calls = <<>>

(***************************************************************************)
(* C16.  getProgram(F, V) returns the cached program of the ordered pair   *)
(* (F, V) when there is one and issues no call; otherwise it creates one   *)
(* program, attaches the cached shader of F and then the cached shader of  *)
(* V, links the program once and caches it under the pair.  The key tells  *)
(* every ordered pair apart, (B, A) from (A, B) included.  As claimed: two  *)
(* calls return the same handle iff they name the same pair.  As amended:  *)
(* that holds of calls with no context-lost event handled between them and *)
(* of programs created on a context that is not lost.                      *)
(***************************************************************************)
C16_Step ==
    last'.op = "getProgram" =>
        LET F == last'.args[1]
            V == last'.args[2]
            key == ProgramKey(F, V)
            attaches == CallsNamed(calls', "attachShader")
            links == CallsNamed(calls', "linkProgram")
        IN  IF Has(programCache_, key)
            THEN /\ calls' = <<>>
                 /\ last'.ret = Get(programCache_, key)
                 /\ programCache_' = programCache_
            ELSE /\ Cardinality(CallsNamed(calls', "createProgram")) = 1
                 /\ Cardinality(attaches) = 2
                 /\ calls'[KthCall(calls', "attachShader", 1)] =
                      <<"attachShader", last'.ret, Get(shaderCache_', getUid(F))>>
                 /\ calls'[KthCall(calls', "attachShader", 2)] =
                      <<"attachShader", last'.ret, Get(shaderCache_', getUid(V))>>
                 /\ Cardinality(links) = 1
                 /\ \A l \in links : /\ calls'[l] = <<"linkProgram", last'.ret>>
                                      /\ \A a \in attaches : a < l
                 /\ programCache_' = Put(programCache_, key, last'.ret)

C16_KeyInjective ==
    \A f1 \in Shaders, v1 \in Shaders, f2 \in Shaders, v2 \in Shaders :
        ProgramKey(f1, v1) = ProgramKey(f2, v2) => f1 = f2 /\ v1 = v2

\* As claimed: two calls return the same handle iff they name the same
\* pair, whatever happens between them.
C16_SamePairSameHandle ==
    (last'.op = "getProgram" /\ last'.ret # NULL) =>
        LET key == ProgramKey(last'.args[1], last'.args[2])
        IN  /\ (Has(lastProgram, key) /\ Get(lastProgram, key) # NULL)
                 => last'.ret = Get(lastProgram, key)
            /\ \A e \in lastProgram : e.val = last'.ret => e.key = key

C16_Original ==
    /\ [][C16_Step]_vars
    /\ [](C16_KeyInjective)
    /\ [][C16_SamePairSameHandle]_vars

\* As amended: the same pair gives the same handle as long as its entry is
\* cached, and two entries never hold the same program.
C16_EntryKept ==
    last'.op # "handleWebGLContextLost" =>
        \A e \in programCache_ : e \in programCache_'

C16_GetProgram ==
    /\ [][C16_Step]_vars
    /\ [][C16_EntryKept]_vars
    /\ [](C16_KeyInjective)
    /\ [](\A e1 \in programCache_, e2 \in programCache_ :
            (e1.val = e2.val /\ e1.val # NULL) => e1.key = e2.key)

\* getProgram of a pair and of the same pair reversed: two entries, two
\* programs.
C16_Witness ==
    /\ last.op = "getProgram"
    /\ Has(programCache_, ProgramKey("frag", "vert"))
    /\ Has(programCache_, ProgramKey("vert", "frag"))
    /\ Get(programCache_, ProgramKey("frag", "vert")) > NULL
    /\ Get(programCache_, ProgramKey("vert", "frag")) > NULL
    /\ Get(programCache_, ProgramKey("frag", "vert"))
         # Get(programCache_, ProgramKey("vert", "frag"))

(***************************************************************************)
(* C17.  The context-lost handler is a barrier: the three caches and the   *)
(* active program are reset in one step, so whenever a step takes entries  *)
(* out of a cache (other than deleteBuffer taking out its own) it is the   *)
(* handler and it leaves all three caches empty and no program active;     *)
(* and once the handler has run no cache holds a handle from before the    *)
(* loss, so no acquire puts one in after the clear.                        *)
(***************************************************************************)
\* The step takes out of the caches an entry that no operation deletes.
C17_TakesOut ==
    \/ \E e \in shaderCache_ : e \notin shaderCache_'
    \/ \E e \in programCache_ : e \notin programCache_'
    \/ \E e \in bufferCache_ :
          /\ e \notin bufferCache_'
          /\ ~(last'.op = "deleteBuffer" /\ e.key = getUid(last'.args[1]))

C17_Step ==
    (C17_TakesOut \/ last'.op = "handleWebGLContextLost")
        => /\ last'.op = "handleWebGLContextLost"
           /\ CachesEmpty'
           /\ currentProgram_' = NULL

C17_NoStaleEntry ==
    ~lostPending =>
        /\ \A e \in bufferCache_ : ~Stale(e.val.buffer)
        /\ \A e \in shaderCache_ : ~Stale(e.val)
        /\ \A e \in programCache_ : ~Stale(e.val)

C17_Barrier ==
    /\ [][C17_Step]_vars
    /\ [](C17_NoStaleEntry)

\* The handler has run on caches that held a buffer, a program and its two
\* shaders, with that program active.
C17_Witness ==
    /\ last.op = "handleWebGLContextLost"
    /\ validFrom = 5
    /\ lastProgram # {}
    /\ CachesEmpty
    /\ currentProgram_ = NULL
    /\ uniformLocations_ = EmptyMap

(***************************************************************************)
(* C18.  Closure of the program cache over the shader cache: whenever the  *)
(* program cache holds an entry for a pair (F, V), the shader cache holds  *)
(* entries for F and for V, and the shaders attached to that program, the  *)
(* fragment shader first, are the handles those two entries hold.          *)
(***************************************************************************)
C18_Closed(F, V) ==
    Has(programCache_, ProgramKey(F, V)) =>
        /\ Has(shaderCache_, getUid(F))
        /\ Has(shaderCache_, getUid(V))
        /\ Has(attached, ProgramKey(F, V))
        /\ Get(attached, ProgramKey(F, V))
              = <<Get(shaderCache_, getUid(F)), Get(shaderCache_, getUid(V))>>

C18_CacheClosure ==
    /\ \A e \in programCache_ : \E pair \in ProgramPairs : e.key = ProgramKey(pair[1], pair[2])
    /\ \A pair \in ProgramPairs : C18_Closed(pair[1], pair[2])

\* Two programs over the same two shaders, attached in either order.
C18_Witness ==
    /\ ~ctxLost
    /\ Has(programCache_, ProgramKey("frag", "vert"))
    /\ Has(programCache_, ProgramKey("vert", "frag"))
    /\ Get(programCache_, ProgramKey("frag", "vert")) # NULL
    /\ Get(attached, ProgramKey("frag", "vert")) = <<Get(shaderCache_, getUid("frag")), Get(shaderCache_, getUid("vert"))>>
    /\ Get(attached, ProgramKey("vert", "frag")) = <<Get(shaderCache_, getUid("vert")), Get(shaderCache_, getUid("frag"))>>
    /\ Get(shaderCache_, getUid("frag")) # NULL
    /\ Get(shaderCache_, getUid("vert")) # NULL

(***************************************************************************)
(* C19.  No stale texture after a context loss: once the context has been  *)
(* lost, the loss handled and the context restored, applyUniforms binds    *)
(* (and so uploads into) no texture handle created before the loss.        *)
(***************************************************************************)
C19_NoStaleTexture ==
    (last.op = "applyUniforms" /\ ~ctxLost /\ ~lostPending /\ ~restoredPending)
        => \A i \in CallsNamed(calls, "bindTexture") : ~Stale(calls[i][3])

(***************************************************************************)
(* C20.  Location lookup is defined in every reachable state:              *)
(* getUniformLocation, getAttributeLocation, applyFrameState and           *)
(* prepareDraw complete without failing in every state reachable from      *)
(* construction, the state before the first useProgram included.           *)
(***************************************************************************)
C20_LookupDefined ==
    last.op \in {"getUniformLocation", "getAttributeLocation",
                 "applyFrameState", "prepareDraw"}
        => ~last.err

====
